---- MODULE Spec2Model ----
(***************************************************************************)
(* A model of scriptworker/task.py: the supervision of the task process    *)
(* (run_task, max_timeout), the lease keep-alive (reclaim_task), the       *)
(* artifact upload (create_artifact, retry_create_artifact,                *)
(* upload_artifacts) and the final report (complete_task).                 *)
(*                                                                         *)
(* Every action is the code of one coroutine from one await to the next.   *)
(***************************************************************************)
EXTENDS Integers, Sequences, FiniteSets, TLC

\* ------------------------------------------------------------------ bounds
MaxRuns == 2            \* invocations of run_task on the one context
MaxEscalations == 4     \* passes of the escalation loop of max_timeout
MaxReclaims == 3        \* renewal requests of reclaim_task
MaxEntries == 1         \* entries of artifact_dir
RetryAttempts == 3      \* attempts retry_async makes

\* --------------------------------------------------------------- constants
SIGINT == 2
SIGTERM == 15
SIGKILL == 9
NoProc == 0             \* context.proc = None
Conflict == 409         \* exc.status_code == 409
NoCode == 256           \* no exit code yet: neither a status nor a negated signal

Runs == 1 .. MaxRuns    \* the r-th invocation spawns the process of pid r
Streams == {"stdout", "stderr"}
ExitCodes == {0, 1, -SIGINT, -SIGTERM, -SIGKILL}
\* Statuses of a TaskclusterRestFailure: the conflict, and two others.
Rejections == {Conflict, 401, 500}
\* Statuses of the response to the PUT of a file.
Statuses == {200, 201, 204, 500}
\* What artifact_dir may hold: entry i is a regular file, a directory or a
\* regular file whose name starts with a dot.
Kinds == {"file", "directory", "dotfile"}
ArtifactPaths == {<<"artifact", i>> : i \in 1 .. MaxEntries}
\* get_log_filenames(context): the log and the error log.
LogFilenames == {<<"log", 1>>, <<"log", 2>>}
Paths == ArtifactPaths \cup LogFilenames

VARIABLES
    ctx_proc,      \* context.proc: NoProc or the handle (pid) of a process
    run_pc,        \* run_pc[r]: where invocation r of run_task stands
    siglist,       \* siglist[r]: max_timeout's list of signals still to try
    pid,           \* pid[r]: max_timeout's local pid, NoProc before line 194
    passes,        \* passes[r]: passes of the escalation loop made so far
    readproc,      \* readproc[r]: the handle whose pipes r's pumps read
    pumps,         \* pumps[r]: the pumps of r that have reached end of file
    waitproc,      \* waitproc[r]: the handle r awaits the exit of
    result,        \* result[r]: what run_task returned, NoCode before
    pstate,        \* pstate[p]: "none", "running", "zombie" or "reaped"
    returncode,    \* returncode[p]: exit status, negative when signalled, NoCode before
    kids,          \* kids[p]: other live members of p's process group
    sent,          \* sent[p]: the signals delivered on behalf of os.kill
    temp_credentials,  \* context.temp_credentials: 0 at claim, n after renewal n
    ctx_reclaim_task,  \* context.reclaim_task: the last reclaimTask result, 0 if none
    reclaim_pc,    \* where reclaim_task stands
    reclaims,      \* the reclaimTask requests made, each <<credentials used>>
    reclaim_status,    \* status of the last reclaimTask response, 0 if none
    complete_pc,   \* where complete_task stands
    complete_result,   \* complete_task's argument result, NoCode before the call
    reports,       \* the report requests made, each <<operation, credentials>>
    complete_status,   \* status of the last report response, 0 if none
    dir_kind,      \* dir_kind[path]: what the entry of artifact_dir is
    upload_pc,     \* where upload_artifacts stands
    upload_value,  \* what upload_artifacts returned
    task_pc,       \* task_pc[path]: where the upload task of the path stands
    attempt,       \* attempt[path]: the attempt retry_async is at
    task_status,   \* task_status[path]: resp.status of this attempt, 0 if none
    exc,           \* exc[path]: the exception the task ended with
    targets,       \* targets[path]: the createArtifact requests, <<credentials>>
    url,           \* url[path]: tc_response['putUrl'], the n-th one issued
    puts           \* puts[path]: the urls the file was PUT to

runVars == <<ctx_proc, run_pc, siglist, pid, passes, readproc, pumps, waitproc, result>>
osVars == <<pstate, returncode, kids, sent>>
leaseVars == <<temp_credentials, ctx_reclaim_task, reclaim_pc, reclaims, reclaim_status>>
reportVars == <<complete_pc, complete_result, reports, complete_status>>
taskVars == <<task_pc, attempt, task_status, exc, targets, url, puts>>
uploadVars == <<dir_kind, upload_pc, upload_value, taskVars>>

\* ------------------------------------------------------- the operating system
\* os.kill(pid, sig) finds the pid as long as the child has not been reaped.
LeaderExists(p) == pstate[p] \in {"running", "zombie"}

\* os.kill(-pid, sig) finds the group as long as it has any member.
GroupExists(p) == LeaderExists(p) \/ kids[p]

\* End of file on the pipes of p: every holder of the write ends is gone.
EndOfFile(p) == pstate[p] \in {"zombie", "reaped"} /\ ~kids[p]

\* The leader after a signal: SIGKILL cannot be caught, the others may be.
Signalled(p, sig, dies) ==
    IF pstate[p] = "running" /\ (sig = SIGKILL \/ dies)
    THEN /\ pstate' = [pstate EXCEPT ![p] = "zombie"]
         /\ returncode' = [returncode EXCEPT ![p] = -sig]
    ELSE UNCHANGED <<pstate, returncode>>

\* The rest of the group after a signal.
GroupSignalled(p, sig, dies) ==
    kids' = [kids EXCEPT ![p] = IF sig = SIGKILL \/ dies THEN FALSE ELSE @]

\* The task script ends by itself.
Exit(p) ==
    /\ pstate[p] = "running"
    /\ \E code \in {0, 1} :
          /\ pstate' = [pstate EXCEPT ![p] = "zombie"]
          /\ returncode' = [returncode EXCEPT ![p] = code]
    /\ UNCHANGED <<kids, sent>>
    /\ UNCHANGED <<runVars, leaseVars, reportVars, uploadVars>>

\* The task script starts a child, which stays in the group (os.setsid).
Fork(p) ==
    /\ pstate[p] = "running"
    /\ ~kids[p]
    /\ kids' = [kids EXCEPT ![p] = TRUE]
    /\ UNCHANGED <<pstate, returncode, sent>>
    /\ UNCHANGED <<runVars, leaseVars, reportVars, uploadVars>>

KidsExit(p) ==
    /\ kids[p]
    /\ kids' = [kids EXCEPT ![p] = FALSE]
    /\ UNCHANGED <<pstate, returncode, sent>>
    /\ UNCHANGED <<runVars, leaseVars, reportVars, uploadVars>>

\* The event loop's child watcher collects the exit status.
Reap(p) ==
    /\ pstate[p] = "zombie"
    /\ pstate' = [pstate EXCEPT ![p] = "reaped"]
    /\ UNCHANGED <<returncode, kids, sent>>
    /\ UNCHANGED <<runVars, leaseVars, reportVars, uploadVars>>

\* ------------------------------------------------------------------ run_task
Active(r) == run_pc[r] \notin {"idle", "returned", "raised"}

\* Lines 42-46: the pumps are created on context.proc's pipes.
StartCapture(r) ==
    IF ctx_proc = NoProc
    THEN /\ run_pc' = [run_pc EXCEPT ![r] = "raised"]
         /\ UNCHANGED <<readproc, pumps>>
    ELSE /\ run_pc' = [run_pc EXCEPT ![r] = "capture"]
         /\ readproc' = [readproc EXCEPT ![r] = ctx_proc]
         /\ pumps' = [pumps EXCEPT ![r] = {}]

\* A run_task that returns without line 52.
FinishHandleKept(r, p) ==
    /\ result' = [result EXCEPT ![r] = returncode[p]]
    /\ run_pc' = [run_pc EXCEPT ![r] = "returned"]
    /\ UNCHANGED ctx_proc

\* Lines 48-53, in this order and without an await in between: the status
\* line is written to log_fh, context.proc = None, exitcode is returned.
Finish(r, p) ==
    /\ result' = [result EXCEPT ![r] = returncode[p]]
    /\ ctx_proc' = NoProc
    /\ run_pc' = [run_pc EXCEPT ![r] = "returned"]

\* ---------------------------------------------------------------- max_timeout
\* A max_timeout without the comparison of line 191.
HandleChangedIgnored(r) == FALSE

\* Line 191: proc != context.proc, proc being the handle run_task passed.
HandleChanged(r) == r # ctx_proc

\* A max_timeout that starts with SIGTERM.
InitialSiglistSwapped == <<SIGTERM, SIGINT>>

\* Line 196.
InitialSiglist == <<SIGINT, SIGTERM>>

\* Lines 198-200.
NextSignal(list) == IF list # <<>> THEN Head(list) ELSE SIGKILL

RestSiglist(list) == IF list # <<>> THEN Tail(list) ELSE <<>>

\* A max_timeout whose except clause is missing: the error leaves run_task.
LookupErrorRaised(r) ==
    /\ run_pc' = [run_pc EXCEPT ![r] = "raised"]
    /\ UNCHANGED <<readproc, pumps>>

\* Lines 205-207: the lookup error is caught and passed over; max_timeout
\* returns and run_task goes on with line 42.
LookupErrorCaught(r) == StartCapture(r)

\* Lines 198-203, one pass of the loop up to its sleep, on the group and the
\* leader of pid p; a failed os.kill raises ProcessLookupError, which ends
\* max_timeout (lines 205-207).
EscalationPass(r, p, list) ==
    LET sig == NextSignal(list) IN
    IF ~GroupExists(p)
    THEN /\ LookupErrorCaught(r)
         /\ UNCHANGED <<siglist, passes>>
         /\ UNCHANGED osVars
    ELSE \E dies \in BOOLEAN, kidsDie \in BOOLEAN :
           /\ GroupSignalled(p, sig, kidsDie)
           /\ IF ~LeaderExists(p)
              THEN /\ sent' = [sent EXCEPT ![p] = Append(@, <<sig, "group">>)]
                   /\ UNCHANGED <<pstate, returncode>>
                   /\ LookupErrorCaught(r)
                   /\ UNCHANGED <<siglist, passes>>
              ELSE /\ sent' = [sent EXCEPT ![p] =
                                  @ \o << <<sig, "group">>, <<sig, "leader">> >>]
                   /\ Signalled(p, sig, dies)
                   /\ run_pc' = [run_pc EXCEPT ![r] = "escalation_sleep"]
                   /\ siglist' = [siglist EXCEPT ![r] = RestSiglist(list)]
                   /\ passes' = [passes EXCEPT ![r] = @ + 1]
                   /\ UNCHANGED <<readproc, pumps>>

\* Lines 190-203: the sleep of task_max_timeout seconds is over. Reading the
\* pid of context.proc = None raises AttributeError (lines 194, 205).
TimeoutElapsed(r) ==
    /\ run_pc[r] = "timeout_sleep"
    /\ IF HandleChanged(r) \/ ctx_proc = NoProc
       THEN /\ StartCapture(r)
            /\ UNCHANGED <<siglist, pid, passes>>
            /\ UNCHANGED osVars
       ELSE /\ pid' = [pid EXCEPT ![r] = ctx_proc]
            /\ EscalationPass(r, ctx_proc, InitialSiglist)
    /\ UNCHANGED <<ctx_proc, waitproc, result>>
    /\ UNCHANGED <<leaseVars, reportVars, uploadVars>>

\* Lines 203-204 and the next pass: the sleep of 1 second is over.
ProbeAfterSleep(r) ==
    /\ run_pc[r] = "escalation_sleep"
    /\ IF ~LeaderExists(pid[r])
       THEN /\ LookupErrorCaught(r)
            /\ UNCHANGED <<siglist, passes>>
            /\ UNCHANGED osVars
       ELSE /\ passes[r] < MaxEscalations
            /\ EscalationPass(r, pid[r], siglist[r])
    /\ UNCHANGED <<ctx_proc, pid, waitproc, result>>
    /\ UNCHANGED <<leaseVars, reportVars, uploadVars>>

\* ------------------------------------------------------- run_task, continued
\* Line 39, up to the await of create_subprocess_exec.
BeginRunTask(r) ==
    /\ run_pc[r] = "idle"
    /\ \A q \in Runs : q < r => run_pc[q] # "idle"
    /\ run_pc' = [run_pc EXCEPT ![r] = "spawning"]
    /\ UNCHANGED <<ctx_proc, siglist, pid, passes, readproc, pumps, waitproc, result>>
    /\ UNCHANGED osVars
    /\ UNCHANGED <<leaseVars, reportVars, uploadVars>>

\* The first invocation of run_task on the context.
CallRunTask(r) ==
    /\ \A q \in Runs : run_pc[q] = "idle"
    /\ BeginRunTask(r)

\* A further invocation on the same context, while an earlier one is still
\* running or after it has ended.
CallRunTaskAgain(r) ==
    /\ \E q \in Runs : run_pc[q] # "idle"
    /\ BeginRunTask(r)

\* Lines 39-40: the process is there; max_timeout starts its sleep.
Spawned(r) ==
    /\ run_pc[r] = "spawning"
    /\ pstate' = [pstate EXCEPT ![r] = "running"]
    /\ ctx_proc' = r
    /\ run_pc' = [run_pc EXCEPT ![r] = "timeout_sleep"]
    /\ siglist' = [siglist EXCEPT ![r] = InitialSiglist]
    /\ UNCHANGED <<pid, passes, readproc, pumps, waitproc, result>>
    /\ UNCHANGED <<returncode, kids, sent>>
    /\ UNCHANGED <<leaseVars, reportVars, uploadVars>>

\* A run_task that passes over the failure of the spawn and goes on.
SpawnFailedIgnored(r) ==
    /\ run_pc[r] = "spawning"
    /\ run_pc' = [run_pc EXCEPT ![r] = "timeout_sleep"]
    /\ UNCHANGED <<ctx_proc, siglist, pid, passes, readproc, pumps, waitproc, result>>
    /\ UNCHANGED osVars
    /\ UNCHANGED <<leaseVars, reportVars, uploadVars>>

\* Line 39: create_subprocess_exec raises (no such file, no permission);
\* nothing catches it and line 40 is not reached.
SpawnFailed(r) ==
    /\ run_pc[r] = "spawning"
    /\ run_pc' = [run_pc EXCEPT ![r] = "raised"]
    /\ UNCHANGED <<ctx_proc, siglist, pid, passes, readproc, pumps, waitproc, result>>
    /\ UNCHANGED osVars
    /\ UNCHANGED <<leaseVars, reportVars, uploadVars>>

\* Lines 44-46: one pump (log_errors or read_stdout) reads to end of file.
PumpDone(r, s) ==
    /\ run_pc[r] = "capture"
    /\ s \notin pumps[r]
    /\ EndOfFile(readproc[r])
    /\ pumps' = [pumps EXCEPT ![r] = @ \cup {s}]
    /\ UNCHANGED <<ctx_proc, run_pc, siglist, pid, passes, readproc, waitproc, result>>
    /\ UNCHANGED osVars
    /\ UNCHANGED <<leaseVars, reportVars, uploadVars>>

\* An asyncio.wait that is over with the first pump.
PumpsOverFirst(r) == pumps[r] # {}

\* Line 46: asyncio.wait(tasks) is over when both pumps are.
PumpsOver(r) == pumps[r] = Streams

\* Lines 46-53: asyncio.wait is over; context.proc.wait() and what follows
\* when the exit status is known already.
CaptureDone(r) ==
    /\ run_pc[r] = "capture"
    /\ PumpsOver(r)
    /\ IF ctx_proc = NoProc
       THEN /\ run_pc' = [run_pc EXCEPT ![r] = "raised"]
            /\ UNCHANGED <<ctx_proc, waitproc, result>>
       ELSE IF pstate[ctx_proc] = "reaped"
       THEN /\ Finish(r, ctx_proc)
            /\ UNCHANGED waitproc
       ELSE /\ run_pc' = [run_pc EXCEPT ![r] = "wait"]
            /\ waitproc' = [waitproc EXCEPT ![r] = ctx_proc]
            /\ UNCHANGED <<ctx_proc, result>>
    /\ UNCHANGED <<siglist, pid, passes, readproc, pumps>>
    /\ UNCHANGED osVars
    /\ UNCHANGED <<leaseVars, reportVars, uploadVars>>

\* Lines 47-53: the process awaited has been reaped.
WaitReturned(r) ==
    /\ run_pc[r] = "wait"
    /\ pstate[waitproc[r]] = "reaped"
    /\ Finish(r, waitproc[r])
    /\ UNCHANGED <<siglist, pid, passes, readproc, pumps, waitproc>>
    /\ UNCHANGED osVars
    /\ UNCHANGED <<leaseVars, reportVars, uploadVars>>


\* -------------------------------------------------------------- reclaim_task
\* A queue client that keeps the credentials of the first renewal request,
\* which are those the task was claimed with.
get_temp_queue_at_claim ==
    IF reclaims = <<>> THEN temp_credentials ELSE reclaims[1]

\* Lines 60-62: the queue client is built from the latest credentials.
get_temp_queue == temp_credentials

\* The credentials the context holds once context.reclaim_task is assigned
\* a reclaimTask result.
LeaseCredentials(reclaimed) == reclaimed

\* A loop that renews only while a process is running.
LoopWhileProcess == ctx_proc # NoProc

\* Line 73: while True.
LoopCondition == TRUE

\* Line 84.
ReclaimConflict(status) == status = Conflict

\* A loop that goes on after a rejection other than the conflict.
AfterRejectionRetry(status) ==
    IF ReclaimConflict(status) THEN "returned" ELSE "sleep"

\* Lines 84-88: break on the conflict, raise otherwise.
AfterRejection(status) ==
    IF ReclaimConflict(status) THEN "returned" ELSE "raised"

\* A loop that renews first and sleeps afterwards.
CallReclaimTaskEager ==
    /\ reclaim_pc = "idle"
    /\ reclaims' = Append(reclaims, get_temp_queue)
    /\ reclaim_pc' = "request"
    /\ UNCHANGED <<temp_credentials, ctx_reclaim_task, reclaim_status>>
    /\ UNCHANGED <<runVars, osVars, reportVars, uploadVars>>

\* Lines 73-74: the loop is entered and sleeps reclaim_interval.
CallReclaimTask ==
    /\ reclaim_pc = "idle"
    /\ reclaim_pc' = IF LoopCondition THEN "sleep" ELSE "returned"
    /\ UNCHANGED <<temp_credentials, ctx_reclaim_task, reclaims, reclaim_status>>
    /\ UNCHANGED <<runVars, osVars, reportVars, uploadVars>>

\* Lines 74-80: the sleep is over; reclaimTask is requested.
ReclaimRequest ==
    /\ reclaim_pc = "sleep"
    /\ Len(reclaims) < MaxReclaims
    /\ reclaims' = Append(reclaims, get_temp_queue)
    /\ reclaim_pc' = "request"
    /\ UNCHANGED <<temp_credentials, ctx_reclaim_task, reclaim_status>>
    /\ UNCHANGED <<runVars, osVars, reportVars, uploadVars>>

\* Lines 80-82 and 73-74: the queue renews the lease with fresh credentials.
ReclaimAccepted ==
    /\ reclaim_pc = "request"
    /\ reclaim_status' = 200
    /\ ctx_reclaim_task' = Len(reclaims)
    /\ temp_credentials' = LeaseCredentials(Len(reclaims))
    /\ reclaim_pc' = IF LoopCondition THEN "sleep" ELSE "returned"
    /\ UNCHANGED reclaims
    /\ UNCHANGED <<runVars, osVars, reportVars, uploadVars>>

\* Lines 83-88: reclaimTask raises TaskclusterRestFailure.
ReclaimRejected(status) ==
    /\ reclaim_pc = "request"
    /\ reclaim_status' = status
    /\ reclaim_pc' = AfterRejection(status)
    /\ UNCHANGED <<temp_credentials, ctx_reclaim_task, reclaims>>
    /\ UNCHANGED <<runVars, osVars, reportVars, uploadVars>>

\* ------------------------------------------------------------- complete_task
\* A complete_task that takes only a positive exit code for a failure.
ReportOperationPositive(res) ==
    IF res > 0 THEN "reportFailed" ELSE "reportCompleted"

\* Lines 173-178.
ReportOperation(res) == IF res = 0 THEN "reportCompleted" ELSE "reportFailed"

\* A complete_task that swallows every rejection.
ReportAnyRejection(status) == TRUE

\* Line 183.
ReportConflict(status) == status = Conflict

\* Lines 170-178: the report is requested.
CallCompleteTask(res) ==
    /\ complete_pc = "idle"
    /\ complete_result' = res
    /\ reports' = Append(reports, <<ReportOperation(res), get_temp_queue>>)
    /\ complete_pc' = "request"
    /\ UNCHANGED complete_status
    /\ UNCHANGED <<runVars, osVars, leaseVars, uploadVars>>

\* Lines 175/178: the queue accepts the report.
ReportAccepted ==
    /\ complete_pc = "request"
    /\ complete_status' = 200
    /\ complete_pc' = "returned"
    /\ UNCHANGED <<complete_result, reports>>
    /\ UNCHANGED <<runVars, osVars, leaseVars, uploadVars>>

\* Lines 182-186: the report raises TaskclusterRestFailure.
ReportRejected(status) ==
    /\ complete_pc = "request"
    /\ complete_status' = status
    /\ complete_pc' = IF ReportConflict(status) THEN "returned" ELSE "raised"
    /\ UNCHANGED <<complete_result, reports>>
    /\ UNCHANGED <<runVars, osVars, leaseVars, uploadVars>>

\* ----------------------------------------------------------- create_artifact
\* An upload that takes the status 200 alone for a success.
IsSuccess200(status) == status = 200

\* Line 134: resp.status in (200, 204).
IsSuccess(status) == status \in {200, 204}

\* retry_async: another attempt while the budget lasts.
BudgetLeft(path) == attempt[path] < RetryAttempts

\* Lines 111-119: createArtifact is requested with the latest credentials.
RequestTarget(path) == Append(targets[path], get_temp_queue)

\* A create_artifact that keeps the putUrl of the first request.
PutUrlFirst(path) == 1

\* Lines 119, 128: tc_response['putUrl'], the url the queue issued for this
\* request; the n-th request of a path is answered with its n-th url.
PutUrl(path) == Len(targets[path])

\* Lines 119-130: the queue answers with a putUrl; the file is opened and the
\* PUT is sent. Opening a directory raises IsADirectoryError.
TargetCreated(path) ==
    /\ task_pc[path] = "createArtifact"
    /\ url' = [url EXCEPT ![path] = PutUrl(path)]
    /\ IF dir_kind[path] = "directory"
       THEN /\ task_pc' = [task_pc EXCEPT ![path] = "raised"]
            /\ exc' = [exc EXCEPT ![path] = "IsADirectoryError"]
            /\ UNCHANGED puts
       ELSE /\ task_pc' = [task_pc EXCEPT ![path] = "put"]
            /\ puts' = [puts EXCEPT ![path] = Append(@, url'[path])]
            /\ UNCHANGED exc
    /\ UNCHANGED <<dir_kind, upload_pc, upload_value, attempt, task_status, targets>>
    /\ UNCHANGED <<runVars, osVars, leaseVars, reportVars>>

\* Line 119: createArtifact raises TaskclusterRestFailure, which neither
\* create_artifact nor retry_async (retry_exceptions, line 144) catches.
TargetRejected(path) ==
    /\ task_pc[path] = "createArtifact"
    /\ task_pc' = [task_pc EXCEPT ![path] = "raised"]
    /\ exc' = [exc EXCEPT ![path] = "TaskclusterRestFailure"]
    /\ UNCHANGED <<dir_kind, upload_pc, upload_value, attempt, task_status,
                   targets, url, puts>>
    /\ UNCHANGED <<runVars, osVars, leaseVars, reportVars>>

\* Lines 130-138 and retry_async: the response to the PUT.
TransferDone(path, status) ==
    /\ task_pc[path] = "put"
    /\ task_status' = [task_status EXCEPT ![path] = status]
    /\ IF IsSuccess(status)
       THEN /\ task_pc' = [task_pc EXCEPT ![path] = "done"]
            /\ UNCHANGED exc
       ELSE IF BudgetLeft(path)
       THEN /\ task_pc' = [task_pc EXCEPT ![path] = "backoff"]
            /\ UNCHANGED exc
       ELSE /\ task_pc' = [task_pc EXCEPT ![path] = "raised"]
            /\ exc' = [exc EXCEPT ![path] = "ScriptWorkerRetryException"]
    /\ UNCHANGED <<dir_kind, upload_pc, upload_value, attempt, targets, url, puts>>
    /\ UNCHANGED <<runVars, osVars, leaseVars, reportVars>>

\* Line 126: artifact_upload_timeout is over before the response.
TransferTimedOut(path) ==
    /\ task_pc[path] = "put"
    /\ task_pc' = [task_pc EXCEPT ![path] = "raised"]
    /\ exc' = [exc EXCEPT ![path] = "TimeoutError"]
    /\ UNCHANGED <<dir_kind, upload_pc, upload_value, attempt, task_status,
                   targets, url, puts>>
    /\ UNCHANGED <<runVars, osVars, leaseVars, reportVars>>

\* retry_async and lines 111-119: the sleep is over, create_artifact again.
BackoffOver(path) ==
    /\ task_pc[path] = "backoff"
    /\ attempt' = [attempt EXCEPT ![path] = @ + 1]
    /\ targets' = [targets EXCEPT ![path] = RequestTarget(path)]
    /\ task_pc' = [task_pc EXCEPT ![path] = "createArtifact"]
    /\ task_status' = [task_status EXCEPT ![path] = 0]
    /\ UNCHANGED <<dir_kind, upload_pc, upload_value, exc, url, puts>>
    /\ UNCHANGED <<runVars, osVars, leaseVars, reportVars>>

\* ----------------------------------------------------------- upload_artifacts
\* Line 154: glob '*' gives the entries whose name does not start with a dot.
Glob == {path \in ArtifactPaths : dir_kind[path] # "dotfile"}

\* Lines 154-155.
Files == Glob \cup LogFilenames

\* An asyncio.wait that is over with the first exception.
WaitOverFirstException ==
    \/ \E path \in Files : task_pc[path] = "raised"
    \/ \A path \in Files : task_pc[path] = "done"

\* Line 159: asyncio.wait(tasks) is over when every task is.
WaitOver == \A path \in Files : task_pc[path] \in {"done", "raised"}

\* Lines 154-159: one task per path; each runs up to its createArtifact.
CallUploadArtifacts ==
    /\ upload_pc = "idle"
    /\ upload_pc' = "waiting"
    /\ task_pc' = [path \in Paths |->
                      IF path \in Files THEN "createArtifact" ELSE "none"]
    /\ attempt' = [path \in Paths |-> IF path \in Files THEN 1 ELSE 0]
    /\ targets' = [path \in Paths |->
                      IF path \in Files THEN RequestTarget(path) ELSE <<>>]
    /\ UNCHANGED <<dir_kind, upload_value, task_status, exc, url, puts>>
    /\ UNCHANGED <<runVars, osVars, leaseVars, reportVars>>

\* Line 159: the result of asyncio.wait is dropped; None is returned.
UploadReturned ==
    /\ upload_pc = "waiting"
    /\ WaitOver
    /\ upload_pc' = "returned"
    /\ upload_value' = "None"
    /\ UNCHANGED <<dir_kind, taskVars>>
    /\ UNCHANGED <<runVars, osVars, leaseVars, reportVars>>

\* ------------------------------------------------------------- specifications
vars == <<runVars, osVars, leaseVars, reportVars, uploadVars>>

\* The context of a task just claimed; nothing has been called yet.
InitContext ==
    /\ ctx_proc = NoProc
    /\ run_pc = [r \in Runs |-> "idle"]
    /\ siglist = [r \in Runs |-> <<>>]
    /\ pid = [r \in Runs |-> NoProc]
    /\ passes = [r \in Runs |-> 0]
    /\ readproc = [r \in Runs |-> NoProc]
    /\ pumps = [r \in Runs |-> {}]
    /\ waitproc = [r \in Runs |-> NoProc]
    /\ result = [r \in Runs |-> NoCode]
    /\ pstate = [p \in Runs |-> "none"]
    /\ returncode = [p \in Runs |-> NoCode]
    /\ kids = [p \in Runs |-> FALSE]
    /\ sent = [p \in Runs |-> <<>>]
    /\ temp_credentials = 0
    /\ ctx_reclaim_task = 0
    /\ reclaim_pc = "idle"
    /\ reclaims = <<>>
    /\ reclaim_status = 0
    /\ complete_pc = "idle"
    /\ complete_result = NoCode
    /\ reports = <<>>
    /\ complete_status = 0
    /\ upload_pc = "idle"
    /\ upload_value = "none"
    /\ task_pc = [path \in Paths |-> "none"]
    /\ attempt = [path \in Paths |-> 0]
    /\ task_status = [path \in Paths |-> 0]
    /\ exc = [path \in Paths |-> "none"]
    /\ targets = [path \in Paths |-> <<>>]
    /\ url = [path \in Paths |-> 0]
    /\ puts = [path \in Paths |-> <<>>]

\* The task has left nothing but regular files in artifact_dir.
Init ==
    /\ InitContext
    /\ dir_kind = [path \in Paths |-> "file"]

\* artifact_dir holds entries of any kind; the logs are regular files.
InitUpload ==
    /\ InitContext
    /\ dir_kind \in [Paths -> Kinds]
    /\ \A path \in LogFilenames : dir_kind[path] = "file"

RunTaskStep(r) ==
    \/ Spawned(r)
    \/ SpawnFailed(r)
    \/ TimeoutElapsed(r)
    \/ ProbeAfterSleep(r)
    \/ PumpDone(r, "stdout")
    \/ PumpDone(r, "stderr")
    \/ CaptureDone(r)

OsStep(p) == Exit(p) \/ Fork(p) \/ KidsExit(p) \/ Reap(p)

ReclaimStep ==
    \/ CallReclaimTask
    \/ ReclaimRequest
    \/ ReclaimAccepted
    \/ \E status \in Rejections : ReclaimRejected(status)

CompleteStep ==
    \/ \E res \in ExitCodes : CallCompleteTask(res)
    \/ ReportAccepted
    \/ \E status \in Rejections : ReportRejected(status)

\* One task is run, the lease being renewed meanwhile. max_timeout then ends
\* only once the pid is gone, so that line 47 never has to wait (NeverWaits).
NextRun ==
    \/ \E r \in Runs : CallRunTask(r) \/ RunTaskStep(r) \/ OsStep(r)
    \/ ReclaimStep

SpecRun == Init /\ [][NextRun]_vars

\* The same, the event loop doing its part: the timer of a sleep of 1 second
\* fires (asyncio.sleep, line 203) and the child watcher collects a child
\* that has exited.
SpecRunFair ==
    /\ SpecRun
    /\ \A r \in Runs : WF_vars(ProbeAfterSleep(r)) /\ WF_vars(Reap(r))

\* run_task is invoked again on the same context.
NextOverlap ==
    \E r \in Runs :
        \/ CallRunTask(r) \/ CallRunTaskAgain(r)
        \/ RunTaskStep(r) \/ WaitReturned(r)
        \/ OsStep(r)

SpecOverlap == Init /\ [][NextOverlap]_vars

\* The outcome is reported, the lease being renewed meanwhile.
NextReport == CompleteStep \/ ReclaimStep

SpecReport == Init /\ [][NextReport]_vars

UploadTaskStep(path) ==
    \/ TargetCreated(path)
    \/ TargetRejected(path)
    \/ \E status \in Statuses : TransferDone(path, status)
    \/ TransferTimedOut(path)
    \/ BackoffOver(path)

\* The files of artifact_dir and the logs are uploaded.
NextUpload ==
    \/ CallUploadArtifacts
    \/ \E path \in Paths : UploadTaskStep(path)
    \/ UploadReturned

SpecUpload == InitUpload /\ [][NextUpload]_vars

\* artifact_dir holds nothing that glob returns; the logs are regular files.
InitLease ==
    /\ InitContext
    /\ dir_kind = [path \in Paths |->
                      IF path \in LogFilenames THEN "file" ELSE "dotfile"]

\* The caller reports once upload_artifacts has returned.
CompleteAfterUpload == upload_pc = "returned" /\ CompleteStep

\* The end of a job: the logs are uploaded and the outcome is reported, the
\* lease being renewed meanwhile.
NextLease ==
    \/ ReclaimStep
    \/ CallUploadArtifacts
    \/ \E path \in Paths : UploadTaskStep(path)
    \/ UploadReturned
    \/ CompleteAfterUpload

SpecLease == InitLease /\ [][NextLease]_vars

\* ------------------------------------------------------------------- claims
\* No invocation of run_task in SpecRun ever waits at line 47.
NeverWaits == \A r \in Runs : run_pc[r] # "wait"

\* C1: a process that has exited before the sleep of task_max_timeout ends
\* gets no signal from the watchdog: the step that ends the sleep of a
\* watchdog whose process is gone delivers nothing.
C1_NoSignalAfterEarlyExit ==
    [][\A r \in Runs :
          (run_pc[r] = "timeout_sleep" /\ pstate[r] \in {"zombie", "reaped"})
              => sent'[r] = sent[r]]_vars

\* The signal of the k-th pass of the escalation.
SignalOfPass(k) == IF k = 1 THEN SIGINT ELSE IF k = 2 THEN SIGTERM ELSE SIGKILL

\* SIGINT, SIGTERM, then SIGKILL only, each to the group and then the leader.
EscalationOrder(log) ==
    \A i \in 1 .. Len(log) :
        log[i] = <<SignalOfPass((i + 1) \div 2),
                   IF i % 2 = 1 THEN "group" ELSE "leader">>

\* C2: the signals a process gets are SIGINT, then SIGTERM, then SIGKILL over
\* and over, each to the group and to the leader; a process running when the
\* sleep of task_max_timeout ends gets SIGINT on both; every later signal
\* follows a sleep of 1 second and a probe that found the pid, and a probe
\* that does not find it ends the escalation.
C2_EscalationOrder ==
    /\ [](\A p \in Runs : EscalationOrder(sent[p]))
    /\ [][\A r \in Runs :
            /\ sent'[r] # sent[r] =>
                  \/ run_pc[r] = "timeout_sleep" /\ sent[r] = <<>>
                  \/ run_pc[r] = "escalation_sleep" /\ LeaderExists(r)
            /\ (run_pc[r] = "timeout_sleep" /\ run_pc'[r] # "timeout_sleep"
                    /\ pstate[r] = "running") =>
                  /\ sent'[r] = << <<SIGINT, "group">>, <<SIGINT, "leader">> >>
                  /\ run_pc'[r] = "escalation_sleep"
            /\ (run_pc[r] = "escalation_sleep" /\ ~LeaderExists(r)
                    /\ run_pc'[r] # "escalation_sleep") =>
                  sent' = sent]_vars

\* A process that outlived SIGINT and SIGTERM and got SIGKILL twice.
C2_Witness ==
    /\ Len(sent[1]) = 8
    /\ returncode[1] = -SIGKILL

\* C3: a watchdog whose sleep ends while context.proc is not its own handle
\* returns without any signal, and a process gets signals from the watchdog
\* of its own invocation of run_task only.
C3_StaleWatchdogNoop ==
    [][\A r \in Runs :
          /\ (run_pc[r] = "timeout_sleep" /\ run_pc'[r] # "timeout_sleep"
                  /\ ctx_proc # r) =>
                (sent' = sent /\ pid'[r] = NoProc
                    /\ run_pc'[r] \in {"capture", "raised"})
          /\ sent'[r] # sent[r] =>
                /\ run_pc[r] \in {"timeout_sleep", "escalation_sleep"}
                /\ passes'[r] # passes[r] \/ run_pc'[r] # run_pc[r]
                /\ \A q \in Runs \ {r} :
                      passes'[q] = passes[q] /\ run_pc'[q] = run_pc[q]]_vars

\* The watchdog of process 1 has returned, process 2 being the current one:
\* neither process, both still running, has been signalled.
C3_Witness ==
    /\ run_pc[1] = "capture" /\ readproc[1] = 2 /\ pid[1] = NoProc
    /\ pstate[1] = "running" /\ pstate[2] = "running"
    /\ sent[1] = <<>> /\ sent[2] = <<>>

\* C4: reclaim_task returns on a conflict and on nothing else, without
\* raising, and makes no request afterwards; whatever the task process and
\* context.proc, a loop that sleeps goes on to its next request.
C4_StopsOnConflictOnly ==
    /\ [][/\ reclaim_pc = "returned" =>
                (reclaim_pc' = "returned" /\ reclaims' = reclaims)
          /\ (reclaim_pc # "returned" /\ reclaim_pc' = "returned") =>
                (reclaim_pc = "request" /\ reclaim_status' = Conflict)
          /\ (reclaim_pc = "request" /\ reclaim_pc' # "request"
                  /\ reclaim_status' = Conflict) =>
                reclaim_pc' = "returned"]_vars
    /\ []((reclaim_pc = "sleep" /\ Len(reclaims) < MaxReclaims) =>
              ENABLED ReclaimRequest)

\* The loop has renewed after run_task returned and cleared the handle, and
\* has then stopped on a conflict.
C4_Witness ==
    /\ reclaim_pc = "returned" /\ reclaim_status = Conflict
    /\ Len(reclaims) = MaxReclaims
    /\ run_pc[1] = "returned" /\ ctx_proc = NoProc

\* C10: a rejection of the renewal other than the conflict ends reclaim_task
\* with the error raised, and no request is made afterwards.
C10_OtherRejectionRaises ==
    [][/\ (reclaim_pc = "request" /\ reclaim_pc' # "request"
               /\ reclaim_status' \notin {200, Conflict}) =>
              (reclaim_pc' = "raised" /\ reclaims' = reclaims)
       /\ reclaim_pc = "raised" =>
              (reclaim_pc' = "raised" /\ reclaims' = reclaims)]_vars

\* The second renewal has been rejected with status 500.
C10_Witness ==
    /\ reclaim_pc = "raised" /\ reclaim_status = 500
    /\ Len(reclaims) = 2

\* C5: a call of complete_task makes one report: reportCompleted for the
\* exit code 0 and reportFailed for any other, negative ones included.
C5_OneReport ==
    /\ complete_pc = "idle" => reports = <<>>
    /\ complete_pc # "idle" =>
          /\ Len(reports) = 1
          /\ reports[1][1] = "reportCompleted" <=> complete_result = 0
          /\ reports[1][1] = "reportFailed" <=> complete_result # 0

\* The process was killed by SIGKILL and the failure has been reported.
C5_Witness ==
    /\ complete_pc = "returned" /\ complete_result = -SIGKILL
    /\ reports[1][1] = "reportFailed"

\* C6: complete_task returns normally when the report is accepted or is
\* rejected with the conflict, without a second report, and raises on any
\* other rejection.
C6_ConflictSwallowed ==
    /\ complete_pc = "returned" => complete_status \in {200, Conflict}
    /\ complete_pc = "raised" => complete_status \notin {200, Conflict}
    /\ complete_status = Conflict =>
          (complete_pc = "returned" /\ Len(reports) = 1)
    /\ complete_status \in Rejections \ {Conflict} => complete_pc = "raised"

\* The failure report was rejected with the conflict and swallowed.
C6_Witness ==
    /\ complete_pc = "returned" /\ complete_status = Conflict
    /\ reports[1][1] = "reportFailed"

\* What a task's own course explains of its state.
UploadOutcome(path) ==
    /\ task_pc[path] = "done" <=> task_status[path] \in {200, 204}
    /\ task_pc[path] = "backoff" =>
          (task_status[path] \notin {0, 200, 204} /\ attempt[path] < RetryAttempts)
    /\ (task_pc[path] = "raised" /\ exc[path] = "ScriptWorkerRetryException") =>
          (task_status[path] \notin {0, 200, 204} /\ attempt[path] = RetryAttempts)
    /\ task_status[path] \notin {0, 200, 204} =>
          \/ task_pc[path] = "backoff"
          \/ /\ task_pc[path] = "raised"
             /\ exc[path] = "ScriptWorkerRetryException"
             /\ attempt[path] = RetryAttempts
    /\ attempt[path] <= RetryAttempts
    /\ Len(puts[path]) <= attempt[path]

\* C7: the upload of a file is done exactly when a PUT got 200 or 204; any
\* other status leads to another attempt while the budget lasts and to the
\* failure, with that status, when it is spent; a task that is done or has
\* failed makes no further attempt.
C7_UploadRetry ==
    /\ [](\A path \in Paths : UploadOutcome(path))
    /\ [][\A path \in Paths :
            /\ task_pc[path] \in {"done", "raised"} =>
                  /\ task_pc'[path] = task_pc[path]
                  /\ attempt'[path] = attempt[path]
                  /\ targets'[path] = targets[path]
                  /\ puts'[path] = puts[path]
            /\ (task_pc[path] = "backoff" /\ task_pc'[path] # "backoff") =>
                  /\ task_pc'[path] = "createArtifact"
                  /\ attempt'[path] = attempt[path] + 1]_vars

\* The PUT of the artifact failed twice and then got 200.
C7_Witness ==
    /\ upload_pc = "returned"
    /\ task_pc[<<"artifact", 1>>] = "done"
    /\ task_status[<<"artifact", 1>>] = 200
    /\ attempt[<<"artifact", 1>>] = 3
    /\ Len(puts[<<"artifact", 1>>]) = 3
    /\ task_pc[<<"log", 1>>] = "done" /\ task_pc[<<"log", 2>>] = "done"

\* C8: upload_artifacts returns only when every task is over, each task ends
\* as its own course has it, and the step in which a task fails changes no
\* other task.
C8_UploadsIndependent ==
    /\ [](upload_pc = "returned" =>
             \A path \in Files : task_pc[path] \in {"done", "raised"})
    /\ [](\A path \in Paths :
             /\ UploadOutcome(path)
             /\ exc[path] = "IsADirectoryError" => dir_kind[path] = "directory"
             /\ exc[path] # "none" <=> task_pc[path] = "raised")
    /\ [][\A path \in Paths :
            (task_pc'[path] = "raised" /\ task_pc[path] # "raised") =>
                \A other \in Paths \ {path} :
                    /\ task_pc'[other] = task_pc[other]
                    /\ attempt'[other] = attempt[other]
                    /\ task_status'[other] = task_status[other]
                    /\ exc'[other] = exc[other]]_vars

\* The upload of the log is out of attempts, that of the error log was
\* rejected by the queue, and the artifact was uploaded at the last attempt.
C8_Witness ==
    /\ upload_pc = "returned"
    /\ task_pc[<<"log", 1>>] = "raised"
    /\ exc[<<"log", 1>>] = "ScriptWorkerRetryException"
    /\ exc[<<"log", 2>>] = "TaskclusterRestFailure"
    /\ task_pc[<<"artifact", 1>>] = "done"
    /\ attempt[<<"artifact", 1>>] = RetryAttempts

\* C9: when upload_artifacts is over and the upload of a file is out of
\* attempts, the caller is told: something other than None is returned.
C9_FailureObservable ==
    (upload_pc = "returned"
        /\ \E path \in Files :
              task_pc[path] = "raised" /\ exc[path] = "ScriptWorkerRetryException")
    => upload_value # "None"

\* The watchdog of invocation r is at work: in its sleep of task_max_timeout
\* or in the escalation.
Watching(r) == run_pc[r] \in {"timeout_sleep", "escalation_sleep"}

\* Invocation r holds a process it has not seen the end of.
Supervising(r) == run_pc[r] \in {"timeout_sleep", "escalation_sleep", "capture", "wait"}

\* C11: the pumps of run_task read the pipes of the process from its spawn
\* on, the watchdog sleeping meanwhile: while the process is supervised the
\* pumps are on its pipes, and when it has exited and the pipes are at end of
\* file during the sleep of task_max_timeout, a pump can finish.
C11_PumpsReadFromSpawn ==
    \A r \in Runs :
        /\ (Supervising(r) /\ pstate[r] # "none") => readproc[r] = r
        /\ (run_pc[r] = "timeout_sleep" /\ EndOfFile(r)) =>
              ENABLED PumpDone(r, "stdout")

C13_SpawnFailurePropagates ==
    /\ [](\A r \in Runs :
            /\ Supervising(r) => pstate[r] # "none"
            /\ run_pc[r] = "raised" =>
                  /\ pstate[r] = "none" /\ sent[r] = <<>>
                  /\ pid[r] = NoProc /\ passes[r] = 0
                  /\ readproc[r] = NoProc /\ pumps[r] = {}
                  /\ result[r] = NoCode
                  /\ ctx_proc = NoProc)
    /\ [][\A r \in Runs :
            /\ (run_pc[r] = "spawning" /\ run_pc'[r] # "spawning"
                    /\ pstate'[r] = "none") =>
                  /\ run_pc'[r] = "raised"
                  /\ ctx_proc' = ctx_proc
                  /\ UNCHANGED <<siglist, pid, passes, readproc, pumps, result, sent>>
            /\ run_pc[r] = "raised" =>
                  (run_pc'[r] = "raised" /\ UNCHANGED <<runVars, osVars>>)]_vars

\* The spawn has failed while the lease was being renewed.
C13_Witness ==
    /\ run_pc[1] = "raised" /\ pstate[1] = "none"
    /\ ctx_proc = NoProc /\ reclaim_pc = "request"

\* C16: run_task returns the exit code in one step with the status line and
\* the clearing of the handle, and only when both pumps are at end of file
\* and the exit status has been collected; the handle is cleared by that
\* step alone.
C16_ReturnAfterDrain ==
    /\ [](\A r \in Runs :
            run_pc[r] = "returned" =>
                /\ pumps[r] = Streams /\ EndOfFile(readproc[r])
                /\ pstate[r] = "reaped" /\ result[r] = returncode[r])
    /\ [][\A r \in Runs :
            /\ (run_pc[r] # "returned" /\ run_pc'[r] = "returned") =>
                  /\ run_pc[r] \in {"capture", "wait"}
                  /\ pumps[r] = Streams /\ readproc[r] = r
                  /\ pstate[r] = "reaped"
                  /\ ctx_proc = r /\ ctx_proc' = NoProc
            /\ (ctx_proc = r /\ ctx_proc' # r) =>
                  (pumps[r] = Streams /\ run_pc'[r] = "returned")]_vars

\* The process ignored SIGINT and was killed by SIGTERM; both pumps were
\* drained and run_task has returned the negative exit code.
C16_Witness ==
    /\ run_pc[1] = "returned" /\ result[1] = -SIGTERM
    /\ pumps[1] = Streams /\ Len(sent[1]) = 4

\* C17: reclaim_task makes its requests one after the other: none when it is
\* called, none while one is in flight, one at the end of each sleep, and a
\* sleep is entered only at the call and after an accepted request.
C17_SequentialRenewals ==
    [][/\ reclaims' # reclaims =>
              /\ reclaim_pc = "sleep" /\ reclaim_pc' = "request"
              /\ Len(reclaims') = Len(reclaims) + 1
              /\ reclaims # <<>> => reclaim_status = 200
       /\ reclaim_pc = "idle" => reclaims' = <<>>
       /\ reclaim_pc = "request" => reclaims' = reclaims
       /\ (reclaim_pc = "sleep" /\ reclaim_pc' # "sleep") =>
              (reclaim_pc' = "request" /\ Len(reclaims') = Len(reclaims) + 1)
       /\ (reclaim_pc # "sleep" /\ reclaim_pc' = "sleep") =>
              \/ reclaim_pc = "idle" /\ reclaims = <<>>
              \/ reclaim_pc = "request" /\ reclaim_status' = 200]_vars

\* Three renewals, each accepted, and the loop sleeps again.
C17_Witness ==
    /\ reclaim_pc = "sleep" /\ Len(reclaims) = 3
    /\ reclaim_status = 200 /\ temp_credentials = 3

\* C18: max_timeout never raises: the watchdog goes on or returns, and in the
\* escalation it returns only when a signal or the probe did not find the
\* pid; and an escalation that has begun comes to its end.
C18_EscalationEnds ==
    /\ [][\A r \in Runs :
            /\ Watching(r) => (Watching(r)' \/ run_pc'[r] = "capture")
            /\ (Watching(r) /\ run_pc'[r] = "capture") => ~LeaderExists(r)]_vars
    /\ \A r \in Runs : (run_pc[r] = "escalation_sleep") ~> (run_pc[r] = "capture")

\* The process ignored SIGINT and SIGTERM and a child of it outlived both;
\* after SIGKILL the probe failed and max_timeout has returned.
C18_Witness ==
    /\ run_pc[1] = "capture" /\ pid[1] = 1
    /\ Len(sent[1]) >= 6 /\ ~LeaderExists(1)
    /\ returncode[1] = -SIGKILL

\* C15: once upload_artifacts has been called, an upload has been started
\* for an entry of artifact_dir exactly when the entry is a regular file,
\* and for each of the logs.
C15_RegularFilesOnly ==
    upload_pc # "idle" =>
        /\ \A path \in ArtifactPaths :
              targets[path] # <<>> <=> dir_kind[path] \in {"file", "dotfile"}
        /\ \A path \in LogFilenames : targets[path] # <<>>

\* C19: upload_artifacts does not return normally when the queue has
\* rejected a createArtifact request.
C19_TargetRejectionPropagates ==
    (\E path \in Files : exc[path] = "TaskclusterRestFailure")
        => upload_pc # "returned"

\* C20: the requests and the transfers of a path go in pairs: as many
\* createArtifact requests as attempts, each transfer after the request of
\* its attempt and to the url of that request, no url used twice; a path done
\* at the first attempt has made one request and one transfer.
C20_TargetPerAttempt ==
    /\ [](\A path \in Paths :
            /\ Len(targets[path]) = attempt[path]
            /\ Len(puts[path]) <= Len(targets[path])
            /\ \A i \in 1 .. Len(puts[path]) : puts[path][i] = i
            /\ task_pc[path] \in {"put", "done", "backoff"} =>
                  Len(puts[path]) = Len(targets[path])
            /\ task_pc[path] = "createArtifact" =>
                  Len(puts[path]) = Len(targets[path]) - 1)
    /\ [][\A path \in Paths :
            /\ puts'[path] # puts[path] =>
                  /\ task_pc[path] = "createArtifact"
                  /\ puts'[path] = Append(puts[path], Len(targets[path]))
                  /\ targets'[path] = targets[path]
            /\ targets'[path] # targets[path] =>
                  /\ task_pc'[path] = "createArtifact"
                  /\ Len(targets'[path]) = Len(targets[path]) + 1
                  /\ attempt'[path] = attempt[path] + 1
                  /\ puts'[path] = puts[path]]_vars

\* The first transfer of the artifact failed and the second was accepted: two
\* requests and two transfers for it, one of each for either log.
C20_Witness ==
    /\ upload_pc = "returned"
    /\ \A path \in Paths : task_pc[path] = "done"
    /\ puts[<<"artifact", 1>>] = <<1, 2>>
    /\ Len(targets[<<"artifact", 1>>]) = 2
    /\ \A path \in LogFilenames : puts[path] = <<1>> /\ Len(targets[path]) = 1

\* The renewals accepted so far: every request but one in flight or rejected,
\* since the loop goes on after an accepted request only.
Renewed ==
    IF reclaim_pc \in {"idle", "sleep"} THEN Len(reclaims) ELSE Len(reclaims) - 1

\* C14: the credentials of the context are those of the latest accepted
\* renewal (those of the claim before the first); they change with an
\* accepted renewal only, a rejected one leaves them; and every request to
\* the queue, reclaimTask, createArtifact or a report, is made with them.
C14_LatestCredentials ==
    /\ [](temp_credentials = Renewed)
    /\ [][/\ temp_credentials' # temp_credentials =>
                /\ reclaim_pc = "request" /\ reclaim_status' = 200
                /\ temp_credentials' = Len(reclaims)
          /\ (reclaim_pc = "request" /\ reclaim_pc' # "request"
                  /\ reclaim_status' # 200) =>
                temp_credentials' = temp_credentials
          /\ reclaims' # reclaims =>
                reclaims' = Append(reclaims, Renewed)
          /\ reports' # reports =>
                /\ Len(reports') = Len(reports) + 1
                /\ reports'[Len(reports')][2] = Renewed
          /\ \A path \in Paths :
                targets'[path] # targets[path] =>
                    targets'[path] = Append(targets[path], Renewed)]_vars

\* The first upload of the log was requested with the credentials of the
\* claim and its retry with those of the first renewal; the report was made
\* with those of the second renewal; the third renewal met the conflict.
C14_Witness ==
    /\ targets[<<"log", 1>>] = <<0, 1>>
    /\ complete_pc = "returned"
    /\ reports = << <<"reportCompleted", 2>> >>
    /\ reclaim_pc = "returned" /\ Len(reclaims) = 3
    /\ temp_credentials = 2
====
